---- MODULE Spec2Model ----
(***************************************************************************)
(* A model of receptiviti.request(): deduplication of the input texts,     *)
(* bundling under a record-count and a byte limit, dispatch of the bundles *)
(* through _process() (sequentially or through a multiprocessing Pool)     *)
(* with its retry counter, and concatenation of the per-bundle results.    *)
(*                                                                         *)
(* A text is modelled by an integer: NA is a missing value (None / NaN),   *)
(* 0 is the empty string "" and t > 0 is a string of t characters; two     *)
(* texts are equal exactly when their integers are equal.                  *)
(***************************************************************************)
EXTENDS Integers, Sequences, FiniteSets, TLC

\* ---------------------------------------------------------------- bounds
\* longest input list
MaxTexts == 3
\* longest text
MaxText == 2
\* largest bundle_size argument
MaxBundleSize == 3
\* largest retry_limit argument
MaxRetry == 1
\* largest cores argument
MaxCores == 2

NA == 0 - 1
Texts == {NA} \cup (0..MaxText)
\* bundle_byte_limit arguments: below the size of the longest text, between
\* the size of one and of two texts, and above every group
ByteLimits == {50, 100, 1000}

\* ------------------------------------------------------------- variables
VARIABLES
    text,               \* argument: the list of texts
    bundle_size,        \* argument
    bundle_byte_limit,  \* argument
    retry_limit,        \* argument
    cores,              \* argument
    pc,                 \* position in request()
    err,                \* the exception request() raised, "" when none
    data,               \* the deduplicated frame (sequence of records)
    bundles,            \* the list of bundles
    st,                 \* per bundle: "pending", "active", "returned"
    depth,              \* per bundle: recursion depth of _process
    sends,              \* per bundle: number of POSTs made
    got200,             \* per bundle: some POST was answered with 200
    content,            \* per bundle: what the outermost _process returned
    retries,            \* per args dict: ops["retries"]
    order,              \* bundles in the order in which they returned
    res,                \* the concatenated result table (sequence of rows)
    output,             \* argument: "None" or "path"
    overwrite,          \* argument
    text_form,          \* argument text is a "list" or a "frame" (DataFrame)
    text_column,        \* argument: "None", or a column "in" / "notin" text
    id_column,          \* argument: "None", or a column "in" / "notin" text
    ids_len,            \* argument ids: NoIds for None, else len(ids)
    frameworks,         \* argument: None, a string or a list of names
    framework_prefix,   \* argument: "None", "True" or "False"
    api_status,         \* the status code the health check gets
    api_columns,        \* the columns of the endpoint's normalised results
    file,               \* the file at the output path: "absent", "old", "new"
    status_called,      \* the health check was made
    columns             \* the columns of the returned table

vars == <<text, bundle_size, bundle_byte_limit, retry_limit, cores, pc, err,
          data, bundles, st, depth, sends, got200, content, retries, order, res,
          output, overwrite, text_form, text_column, id_column, ids_len,
          frameworks, framework_prefix, api_status, api_columns, file,
          status_called, columns>>

args == <<text, bundle_size, bundle_byte_limit, retry_limit, cores, output,
          overwrite, text_form, text_column, id_column, ids_len, frameworks,
          framework_prefix, api_status, api_columns>>

\* what the steps before the preparation and after the dispatch write
io == <<file, status_called, columns>>

\* --------------------------------------------------------------- helpers
Min(a, b) == IF a < b THEN a ELSE b
Max(a, b) == IF a > b THEN a ELSE b
CeilDiv(a, b) == (a + b - 1) \div b

None == [isNone |-> TRUE, rows |-> <<>>]
Frame(rows) == [isNone |-> FALSE, rows |-> rows]

\* hashlib.md5(text.encode()).hexdigest(): a digest, distinct per text
MD5(t) == <<"md5", t>>

\* sys.getsizeof(txt): 49 bytes of str header plus one byte per character;
\* a missing value is a float of 24 bytes
StrHeader == 49
FloatSize == 24
GetSizeOfText(t) == IF t = NA THEN FloatSize ELSE StrHeader + t

\* the sum of the sizes of the texts of a sequence of records
RECURSIVE SumTextSize(_)
SumTextSize(g) ==
    IF g = <<>> THEN 0 ELSE GetSizeOfText(Head(g).text) + SumTextSize(Tail(g))

\* sys.getsizeof(group): the frame's deep memory usage (per row an index
\* entry, an object pointer and an id of 8 bytes each, plus each text) and
\* the 16 bytes of the garbage collector's header
GCHeader == 16
RowOverhead == 24
GetSizeOfGroup(g) == GCHeader + RowOverhead * Len(g) + SumTextSize(g)

\* --------------------------------------------------------- deduplication
\* data.duplicated(subset=["text"]): an earlier row has the same text
Duplicated(txt, i) == \E j \in 1..(i - 1) : txt[j] = txt[i]

\* a mask that forgets to keep the empty and the missing texts
KeepRowUniqueOnly(txt, i) == ~Duplicated(txt, i)

\* the row mask of line 140
KeepRow(txt, i) == (~Duplicated(txt, i)) \/ txt[i] = 0 \/ txt[i] = NA

RECURSIVE DedupeFrom(_, _)
DedupeFrom(txt, i) ==
    IF i > Len(txt) THEN <<>>
    ELSE (IF KeepRow(txt, i) THEN <<[id |-> i, text |-> txt[i]]>> ELSE <<>>)
         \o DedupeFrom(txt, i + 1)

\* lines 139-140: the frame of (text, id) with the masked rows only
Dedupe(txt) == DedupeFrom(txt, 1)

\* data.ndim of a DataFrame
Ndim(d) == 2

\* -------------------------------------------------------------- bundling
\* len(numpy.arange(n_bundles + 1)) with n_bundles = n_texts / min(1000,
\* max(1, bundle_size)): the ceiling of the float n_bundles + 1
ArangeLen(n_texts, bsize) ==
    CeilDiv(n_texts + Min(1000, Max(1, bsize)), Min(1000, Max(1, bsize)))

\* numpy.tile(numpy.arange(n_bundles + 1), n_texts)[:n_texts]
GroupKeys(n_texts, bsize) ==
    [i \in 1..Min(n_texts, ArangeLen(n_texts, bsize) * n_texts) |->
        (i - 1) % ArangeLen(n_texts, bsize)]

\* the rows of d whose key is k, in the order of d
RECURSIVE RowsOfKey(_, _, _, _)
RowsOfKey(d, keys, k, i) ==
    IF i > Len(d) THEN <<>>
    ELSE (IF keys[i] = k THEN <<d[i]>> ELSE <<>>) \o RowsOfKey(d, keys, k, i + 1)

\* iterating data.groupby(keys): the non-empty groups in ascending key order
RECURSIVE GroupsFrom(_, _, _, _)
GroupsFrom(d, keys, k, kmax) ==
    IF k > kmax THEN <<>>
    ELSE (IF RowsOfKey(d, keys, k, 1) = <<>> THEN <<>>
          ELSE <<RowsOfKey(d, keys, k, 1)>>)
         \o GroupsFrom(d, keys, k + 1, kmax)

GroupBy(d, keys) == GroupsFrom(d, keys, 0, Len(keys))

\* an overflow test that leaves out the size of the text at hand
OverflowsLate(current, size, limit) == current > limit

\* line 158
Overflows(current, size, limit) == (current + size) > limit

\* lines 151-165: the loop over the texts of a group that is over the byte
\* limit; i is the 1-based position of txt, start/current/end as in the code
RECURSIVE SplitLoop(_, _, _, _, _, _, _)
SplitLoop(group, limit, i, start, current, end, out) ==
    IF i > Len(group)
    THEN [raised |-> FALSE,
          out |-> Append(out, SubSeq(group, start + 1, Len(group)))]
    ELSE LET size == GetSizeOfText(group[i].text) IN
         IF size > limit
         THEN [raised |-> TRUE, out |-> out]
         ELSE IF Overflows(current, size, limit)
              THEN SplitLoop(group, limit, i + 1, end + 1, size, end + 1,
                             Append(out, SubSeq(group, start + 1, end)))
              ELSE SplitLoop(group, limit, i + 1, start, current + size,
                             end + 1, out)

\* lines 147-167: the loop over the groups
RECURSIVE MakeBundles(_, _, _, _)
MakeBundles(groups, limit, g, out) ==
    IF g > Len(groups) THEN [raised |-> FALSE, out |-> out]
    ELSE IF GetSizeOfGroup(groups[g]) > limit
         THEN LET r == SplitLoop(groups[g], limit, 1, 0, 0, 0, out) IN
              IF r.raised THEN r ELSE MakeBundles(groups, limit, g + 1, r.out)
         ELSE MakeBundles(groups, limit, g + 1, Append(out, groups[g]))

\* -------------------------------------------------------------- dispatch
\* lines 18-21 and 25: the body of a bundle, one item per text, and the
\* frame normalised from the "results" of a 200 response, one row per item
Results(bundle) ==
    [k \in 1..Len(bundle) |-> [request_id |-> MD5(bundle[k].text)]]

\* text.encode() of line 19 raises for a text that is not a str
HasMissing(bundle) == \E k \in 1..Len(bundle) : bundle[k].text = NA

\* the number of tasks handed to a worker at once. Pool.starmap_async cuts
\* the task list into chunks of ceil(n / (4 * cores)) tasks and pickles each
\* chunk, its args dict included, as one object; the list comprehension of
\* line 186 runs every bundle in this process with the one args dict
ChunkSize(n, c) ==
    IF c > 1
    THEN (n \div (4 * c)) + (IF n % (4 * c) # 0 THEN 1 ELSE 0)
    ELSE n

ChunkOf(i, n, c) == ((i - 1) \div ChunkSize(n, c)) + 1

NumChunks(n, c) == IF n = 0 THEN 0 ELSE ChunkOf(n, n, c)

\* Pool(cores) has cores workers; without a pool this process is the worker
Workers(c) == IF c > 1 THEN c ELSE 1

NBundles == Len(bundles)
MyChunk(i) == ChunkOf(i, NBundles, cores)

\* a dispatcher that starts every bundle at once
SubmittedAll(n, c) == [i \in 1..n |-> "active"]

\* lines 182-186: the bundles the workers hold right after submission: the
\* first bundle of each of the first Workers(c) chunks
Submitted(n, c) ==
    [i \in 1..n |->
        IF (i - 1) % ChunkSize(n, c) = 0 /\ ChunkOf(i, n, c) <= Workers(c)
        THEN "active" ELSE "pending"]

\* the bundle the worker that finished bundle i calls _process on next: the
\* next bundle of its chunk, else the first bundle of the next chunk in the
\* task queue; 0 when nothing is left
NextTask(s, i, n, c) ==
    IF i < n /\ ChunkOf(i + 1, n, c) = ChunkOf(i, n, c) THEN i + 1
    ELSE IF \E j \in 1..n : s[j] = "pending"
         THEN CHOOSE j \in 1..n :
                 /\ s[j] = "pending"
                 /\ \A h \in 1..n : s[h] = "pending" => j <= h
         ELSE 0

\* _process returned for bundle i and its worker goes on
Returned(s, i, n, c) ==
    [j \in 1..n |->
        IF j = i THEN "returned"
        ELSE IF j = NextTask(s, i, n, c) THEN "active"
        ELSE s[j]]

\* the results in the order in which the bundles returned
GatheredByCompletion(cont, ord) == [k \in 1..Len(ord) |-> cont[ord[k]]]

\* the list the dispatch hands to pandas.concat: AsyncResult.get() and the
\* list comprehension both give the results in the order of the bundles
Gathered(cont, ord) == cont

\* pandas.concat(res, ignore_index=True): the rows of the frames in list
\* order; None entries are dropped
RECURSIVE ConcatFrames(_)
ConcatFrames(l) ==
    IF l = <<>> THEN <<>>
    ELSE (IF Head(l).isNone THEN <<>> ELSE Head(l).rows) \o ConcatFrames(Tail(l))

\* -------------------------------------------------------------- columns
\* A column or framework name is the sequence of its characters; the
\* bookkeeping names, which share no prefix with a framework name, are
\* written as one element.
RequestId == <<"request_id">>

\* line 198: the columns request() drops when present
DropList == {<<"response_id">>, <<"language">>, <<"version">>, <<"error">>,
             <<"custom">>}

\* the frameworks argument
NoFrameworks == [kind |-> "None", names |-> <<>>]
FrameworkStr(n) == [kind |-> "str", names |-> <<n>>]
FrameworkList(ns) == [kind |-> "list", names |-> ns]

\* lines 195-201: res.drop of the listed columns that are in res
DropColumns(cols) == SelectSeq(cols, LAMBDA c : c \notin DropList)

\* a pattern without its end: ^(?:item), which takes every name that begins
\* with item
MatchesHead(item, name) ==
    /\ Len(name) >= Len(item)
    /\ \A k \in 1..Len(item) : item[k] = "." \/ item[k] = name[k]

\* re.search of ^(?:item)(?:$|\.) in a column name: the characters of item
\* match the head of the name, a "." of item matching any character, and the
\* name ends there or goes on with "."
Matches(item, name) ==
    /\ Len(name) >= Len(item)
    /\ \A k \in 1..Len(item) : item[k] = "." \/ item[k] = name[k]
    /\ (Len(name) = Len(item) \/ name[Len(item) + 1] = ".")

\* a selection that filters nothing
FilterColumnsNone(cols, select) == cols

\* lines 209-210: res.filter(regex=...) with select = ["request_id", *frameworks]
FilterColumns(cols, select) ==
    SelectSeq(cols, LAMBDA c : \E k \in 1..Len(select) : Matches(select[k], c))

\* lines 205-207: one framework, as a string or as a list of one name, makes
\* a framework_prefix that was not given False
EffectivePrefix(fw, fp) ==
    IF fw.kind # "None" /\ (fw.kind = "str" \/ Len(fw.names) = 1) /\ fp = "None"
    THEN "False" ELSE fp

\* lines 208-210: frameworks = [frameworks] wraps a list of one name into a
\* list holding that list, and "|".join raises TypeError on the list item
JoinRaises(fw) == fw.kind = "list" /\ Len(fw.names) = 1

\* line 212-213: prefix_pattern.sub("", col) with the pattern ^[^.]+\. cuts
\* a leading run of one or more characters other than "." and the "." after it
FirstDot(name) ==
    IF \E k \in 1..Len(name) : name[k] = "."
    THEN CHOOSE k \in 1..Len(name) :
            name[k] = "." /\ \A h \in 1..(k - 1) : name[h] # "."
    ELSE 0

StripPrefix(name) ==
    IF FirstDot(name) > 1
    THEN SubSeq(name, FirstDot(name) + 1, Len(name))
    ELSE name

\* lines 202-213: the columns of the returned table
FinalColumns(cols, fw, fp) ==
    LET kept == IF fw.kind = "None" THEN cols
                ELSE FilterColumns(cols, <<RequestId>> \o fw.names)
    IN IF EffectivePrefix(fw, fp) = "False"
       THEN [k \in 1..Len(kept) |-> StripPrefix(kept[k])]
       ELSE kept

\* the columns of the frames normalised from the endpoint's results
ColumnsA == << RequestId, <<"X", ".", "a">>, <<"X", ".", "b">>,
               <<"Y", ".", "c">> >>
ColumnsB == << <<"response_id">>, RequestId, <<"language">>, <<"X">>,
               <<"X", "Y", ".", "a">>, <<"Y", ".", "a">>, <<".", "d">> >>

\* the frameworks arguments explored
FrameworkArgs ==
    {NoFrameworks, FrameworkStr(<<"X">>), FrameworkStr(<<"Y">>),
     FrameworkStr(<<"Z">>), FrameworkList(<<>>), FrameworkList(<< <<"X">> >>),
     FrameworkList(<< <<"Z">> >>), FrameworkList(<< <<"X">>, <<"Y">> >>),
     FrameworkList(<< <<"X">>, <<"Z">> >>)}

\* ids = None
NoIds == 0 - 1

\* ------------------------------------------------------------------ Init
\* the arguments of the preparation and of the dispatch
Inputs ==
    /\ text \in UNION {[1..n -> Texts] : n \in 0..MaxTexts}
    /\ bundle_size \in 1..MaxBundleSize
    /\ bundle_byte_limit \in ByteLimits
    /\ retry_limit \in 0..MaxRetry
    /\ cores \in 0..MaxCores

\* at most one text, one bundle, no retry, no pool
SmallInputs ==
    /\ text \in UNION {[1..n -> Texts] : n \in 0..1}
    /\ bundle_size = 1
    /\ bundle_byte_limit = 1000
    /\ retry_limit = 0
    /\ cores = 1

\* a list of texts, no ids, no output file, the service ready
PlainCall ==
    /\ output = "None"
    /\ overwrite = FALSE
    /\ file = "absent"
    /\ text_form = "list"
    /\ text_column = "None"
    /\ id_column = "None"
    /\ ids_len = NoIds
    /\ api_status = 200

\* every column returned
AllColumns ==
    /\ frameworks = NoFrameworks
    /\ framework_prefix = "None"
    /\ api_columns = ColumnsA

\* request() is entered
Entered ==
    /\ pc = "start"
    /\ err = ""
    /\ data = <<>>
    /\ bundles = <<>>
    /\ st = <<>>
    /\ depth = <<>>
    /\ sends = <<>>
    /\ got200 = <<>>
    /\ content = <<>>
    /\ retries = <<>>
    /\ order = <<>>
    /\ res = <<>>
    /\ status_called = FALSE
    /\ columns = <<>>

Init ==
    /\ Inputs
    /\ PlainCall
    /\ AllColumns
    /\ Entered

Raise(e) ==
    /\ pc' = "error"
    /\ err' = e

OutputExistsMsg == "output file already exists"
StatusMsg == "API status failed"
IdColumnMsg == "id_column is not in text"
TextColumnMsg == "text_column is not in text"
NoTextColumnMsg == "text is a DataFrame, but no text_column is specified"
IdsLengthMsg == "ids is not the same length as text"

\* --------------------------------------------------------------- actions
\* an entry that goes on to the status request without looking at the file
CheckOutputSkipped ==
    /\ pc = "start"
    /\ pc' = "status"
    /\ err' = err
    /\ UNCHANGED <<args, io, data, bundles, st, depth, sends, got200, content,
                   retries, order, res>>

\* lines 86-88: refuse to overwrite an existing output file
CheckOutput ==
    /\ pc = "start"
    /\ IF output # "None" /\ file # "absent" /\ ~overwrite
       THEN Raise(OutputExistsMsg)
       ELSE pc' = "status" /\ err' = err
    /\ UNCHANGED <<args, io, data, bundles, st, depth, sends, got200, content,
                   retries, order, res>>

\* lines 90-108: resolve the credentials and ask the service for its status
CheckStatus ==
    /\ pc = "status"
    /\ status_called' = TRUE
    /\ IF api_status # 200
       THEN Raise(StatusMsg)
       ELSE pc' = "resolve" /\ err' = err
    /\ UNCHANGED <<args, file, columns, data, bundles, st, depth, sends, got200,
                   content, retries, order, res>>

\* len(ids) at line 133: the id column of the frame when one is named
IdsLen == IF text_form = "frame" /\ id_column = "in" THEN Len(text) ELSE ids_len

\* lines 110-134: take texts and ids out of a frame and compare their lengths
ResolveInput ==
    /\ pc = "resolve"
    /\ IF text_form = "frame" /\ id_column = "notin"
       THEN Raise(IdColumnMsg)
       ELSE IF text_form = "frame" /\ text_column = "notin"
       THEN Raise(TextColumnMsg)
       ELSE IF text_form = "frame" /\ text_column = "None"
       THEN Raise(NoTextColumnMsg)
       ELSE IF IdsLen # NoIds /\ IdsLen # Len(text)
       THEN Raise(IdsLengthMsg)
       ELSE pc' = "prepare" /\ err' = err
    /\ UNCHANGED <<args, io, data, bundles, st, depth, sends, got200, content,
                   retries, order, res>>

\* lines 139-142: build the frame and drop the duplicated texts
Prepare ==
    /\ pc = "prepare"
    /\ data' = Dedupe(text)
    /\ IF Ndim(Dedupe(text)) = 0
       THEN Raise("no valid texts to process")
       ELSE pc' = "bundle" /\ err' = err
    /\ UNCHANGED <<args, io, bundles, st, depth, sends, got200, content, retries,
                   order, res>>

\* lines 143-186: group the frame, split the groups over the byte limit,
\* build the args dict and hand the bundles to the workers
Bundle ==
    /\ pc = "bundle"
    /\ LET keys == GroupKeys(Len(text), bundle_size) IN
       IF Len(keys) # Len(data)
       THEN /\ Raise("Grouper and axis must be same length")
            /\ UNCHANGED <<bundles, st, depth, sends, got200, content, retries>>
       ELSE LET r == MakeBundles(GroupBy(data, keys), bundle_byte_limit, 1, <<>>)
            IN IF r.raised
               THEN /\ Raise("one of your texts is over the bundle size limit")
                    /\ UNCHANGED <<bundles, st, depth, sends, got200, content,
                                   retries>>
               ELSE /\ pc' = "dispatch"
                    /\ err' = err
                    /\ bundles' = r.out
                    /\ st' = Submitted(Len(r.out), cores)
                    /\ depth' = [i \in 1..Len(r.out) |-> 0]
                    /\ sends' = [i \in 1..Len(r.out) |-> 0]
                    /\ got200' = [i \in 1..Len(r.out) |-> FALSE]
                    /\ content' = [i \in 1..Len(r.out) |-> None]
                    /\ retries' = [ch \in 1..NumChunks(Len(r.out), cores) |->
                                      retry_limit]
    /\ UNCHANGED <<args, io, data, order, res>>

\* lines 18-21: building the body raises on a missing text
EncodeError(i) ==
    /\ pc = "dispatch"
    /\ st[i] = "active"
    /\ HasMissing(bundles[i])
    /\ Raise("AttributeError")
    /\ UNCHANGED <<args, io, data, bundles, st, depth, sends, got200, content,
                   retries, order, res>>

\* lines 22-25, 31: the POST is answered with 200. The call that made it
\* returns the frame; when that call is a recursive one (line 30) its value
\* is dropped and the outermost call returns its own content, None
Send200(i) ==
    /\ pc = "dispatch"
    /\ st[i] = "active"
    /\ ~HasMissing(bundles[i])
    /\ sends' = [sends EXCEPT ![i] = @ + 1]
    /\ got200' = [got200 EXCEPT ![i] = TRUE]
    /\ content' = [content EXCEPT ![i] =
                      IF depth[i] = 0 THEN Frame(Results(bundles[i])) ELSE None]
    /\ st' = Returned(st, i, NBundles, cores)
    /\ order' = Append(order, i)
    /\ UNCHANGED <<args, io, pc, err, data, bundles, depth, retries, res>>

\* a retry branch taken once more, with the counter already at zero
SendFailOnceMore(i) ==
    /\ pc = "dispatch"
    /\ st[i] = "active"
    /\ ~HasMissing(bundles[i])
    /\ sends' = [sends EXCEPT ![i] = @ + 1]
    /\ IF retries[MyChunk(i)] >= 0
       THEN /\ retries' = [retries EXCEPT ![MyChunk(i)] = @ - 1]
            /\ depth' = [depth EXCEPT ![i] = @ + 1]
            /\ UNCHANGED <<st, order>>
       ELSE /\ st' = Returned(st, i, NBundles, cores)
            /\ order' = Append(order, i)
            /\ UNCHANGED <<retries, depth>>
    /\ UNCHANGED <<args, io, pc, err, data, bundles, got200, content, res>>

\* lines 22-31: the POST is answered with another status. With retries left
\* in the args dict: decrement and recurse; without: return None
SendFail(i) ==
    /\ pc = "dispatch"
    /\ st[i] = "active"
    /\ ~HasMissing(bundles[i])
    /\ sends' = [sends EXCEPT ![i] = @ + 1]
    /\ IF retries[MyChunk(i)] > 0
       THEN /\ retries' = [retries EXCEPT ![MyChunk(i)] = @ - 1]
            /\ depth' = [depth EXCEPT ![i] = @ + 1]
            /\ UNCHANGED <<st, order>>
       ELSE /\ st' = Returned(st, i, NBundles, cores)
            /\ order' = Append(order, i)
            /\ UNCHANGED <<retries, depth>>
    /\ UNCHANGED <<args, io, pc, err, data, bundles, got200, content, res>>

\* line 22: requests.post raises when the call times out; nothing catches it
SendTimeout(i) ==
    /\ pc = "dispatch"
    /\ st[i] = "active"
    /\ ~HasMissing(bundles[i])
    /\ sends' = [sends EXCEPT ![i] = @ + 1]
    /\ Raise("Timeout")
    /\ UNCHANGED <<args, io, data, bundles, st, depth, got200, content, retries,
                   order, res>>

\* line 187: pandas.concat of the gathered results
Concat ==
    /\ pc = "dispatch"
    /\ \A i \in 1..NBundles : st[i] = "returned"
    /\ IF NBundles = 0
       THEN Raise("No objects to concatenate") /\ res' = res
       ELSE IF \A i \in 1..NBundles : Gathered(content, order)[i].isNone
            THEN Raise("All objects passed were None") /\ res' = res
            ELSE /\ res' = ConcatFrames(Gathered(content, order))
                 /\ pc' = "finalize"
                 /\ err' = err
    /\ UNCHANGED <<args, io, data, bundles, st, depth, sends, got200, content,
                   retries, order>>

\* lines 190-218: write the output file, drop the bookkeeping columns,
\* select the frameworks and cut the prefixes
Finalize ==
    /\ pc = "finalize"
    /\ file' = IF output # "None" THEN "new" ELSE file
    /\ IF JoinRaises(frameworks)
       THEN Raise("TypeError") /\ columns' = columns
       ELSE /\ columns' = FinalColumns(DropColumns(api_columns), frameworks,
                                       framework_prefix)
            /\ pc' = "done"
            /\ err' = err
    /\ UNCHANGED <<args, status_called, data, bundles, st, depth, sends, got200,
                   content, retries, order, res>>

Next ==
    \/ CheckOutput
    \/ CheckStatus
    \/ ResolveInput
    \/ Prepare
    \/ Bundle
    \/ \E i \in 1..NBundles : EncodeError(i)
    \/ \E i \in 1..NBundles : Send200(i)
    \/ \E i \in 1..NBundles : SendFail(i)
    \/ \E i \in 1..NBundles : SendTimeout(i)
    \/ Concat
    \/ Finalize

Spec == Init /\ [][Next]_vars

\* the preparation alone: request() up to the hand-over to the workers
NextBundling ==
    \/ CheckOutput
    \/ CheckStatus
    \/ ResolveInput
    \/ Prepare
    \/ Bundle

SpecBundling == Init /\ [][NextBundling]_vars

\* the whole of request() on the inputs that are one text shorter
InitDispatch ==
    /\ Init
    /\ Len(text) < MaxTexts

SpecDispatch == InitDispatch /\ [][Next]_vars

\* the calls that differ in what the retry loop sees: the retry limit, the
\* workers, and bundles of one text each
InitRetry ==
    /\ InitDispatch
    /\ \A k \in 1..Len(text) : text[k] \in {NA, 1, 2}
    /\ bundle_size = 1
    /\ bundle_byte_limit = 1000

\* request() keeps running: no step of it waits for ever (the POST has a
\* timeout and the backoff is one second)
FairSpecRetry == InitRetry /\ [][Next]_vars /\ WF_vars(Next)

\* the calls that differ in how texts, ids and the output file are given and
\* in the answer of the health check
InitPre ==
    /\ SmallInputs
    /\ output \in {"None", "path"}
    /\ overwrite \in BOOLEAN
    /\ file \in {"absent", "old"}
    /\ output = "None" => file = "absent"
    /\ text_form \in {"list", "frame"}
    /\ text_column \in {"None", "in", "notin"}
    /\ id_column \in {"None", "in", "notin"}
    /\ ids_len \in {NoIds} \cup (0..MaxTexts)
    /\ api_status \in {200, 500}
    /\ AllColumns
    /\ Entered

SpecPre == InitPre /\ [][Next]_vars

\* the calls that differ in the frameworks asked for and in the columns the
\* endpoint returns
InitFrameworks ==
    /\ SmallInputs
    /\ PlainCall
    /\ frameworks \in FrameworkArgs
    /\ framework_prefix \in {"None", "True", "False"}
    /\ api_columns \in {ColumnsA, ColumnsB}
    /\ Entered

SpecFrameworks == InitFrameworks /\ [][Next]_vars

\* ------------------------------------------------------------ properties
\* the errors of lines 86-134, raised before the texts are prepared
PreErrors == {OutputExistsMsg, StatusMsg, IdColumnMsg, TextColumnMsg,
              NoTextColumnMsg, IdsLengthMsg}

Terminated == pc \in {"done", "error"}

OversizeMsg == "one of your texts is over the bundle size limit"

RECURSIVE Flatten(_)
Flatten(ss) == IF ss = <<>> THEN <<>> ELSE Head(ss) \o Flatten(Tail(ss))

\* the result rows of bundle i are all in the returned table
RowsIn(i) ==
    \A k \in 1..Len(bundles[i]) :
        \E p \in 1..Len(res) : res[p] = Results(bundles[i])[k]

\* every POST made so far was answered with 200 and no call timed out
AllAnswered200 ==
    /\ err # "Timeout"
    /\ \A i \in 1..NBundles : sends[i] = (IF got200[i] THEN 1 ELSE 0)

\* C1: when request() returns a table, the table holds the result rows of
\* every bundle whose sends were all answered with a non-success status (the
\* last of them with no retries left): such a run fails instead
C1_NoPartialTable ==
    pc = "done" =>
        \A i \in 1..NBundles :
            (st[i] = "returned" /\ ~got200[i]) => RowsIn(i)

\* C2: when request() returns a table, a bundle whose sends failed k times,
\* 1 <= k <= retry_limit, and whose next send was answered with 200 has its
\* result rows in the table
C2_RetriedBundleContributes ==
    pc = "done" =>
        \A i \in 1..NBundles :
            (got200[i] /\ sends[i] >= 2 /\ sends[i] - 1 <= retry_limit)
                => RowsIn(i)

\* C3: every bundle starts its sends with retry_limit retries left: as long
\* as a bundle has not been sent, the counter it will use is at retry_limit
C3_OwnRetryCounter ==
    pc = "dispatch" =>
        \A i \in 1..NBundles :
            sends[i] = 0 => retries[MyChunk(i)] = retry_limit

\* C4: the bundles partition the deduplicated sequence: every record of data
\* is at exactly one position of exactly one bundle
C4_BundlesPartitionData ==
    pc = "dispatch" =>
        \A r \in 1..Len(data) :
            Cardinality({p \in 1..Len(Flatten(bundles)) :
                            Flatten(bundles)[p] = data[r]}) = 1

HasOversized == \E i \in 1..Len(text) : GetSizeOfText(text[i]) > bundle_byte_limit
HasNA == \E i \in 1..Len(text) : text[i] = NA

\* C6: a run on a non-empty input, without missing or oversized texts and
\* with every POST answered 200, returns a table with one row per input
\* record, in which records of equal text have equal rows
C6_OneRowPerRecord ==
    (Terminated /\ Len(text) >= 1 /\ ~HasNA /\ ~HasOversized /\ AllAnswered200)
        => /\ pc = "done"
           /\ Len(res) = Len(text)
           /\ \A i, j \in 1..Len(text) : text[i] = text[j] => res[i] = res[j]

\* C7: each bundle is a contiguous slice of data, the bundles follow one
\* another in the order of data, and the table returned for an input of
\* all-unique texts, every POST answered 200, has its rows in input order
C7_ContiguousInOrder ==
    /\ pc = "dispatch" =>
        /\ \A i \in 1..NBundles : \A k \in 1..(Len(bundles[i]) - 1) :
              \E p \in 1..(Len(data) - 1) :
                  data[p] = bundles[i][k] /\ data[p + 1] = bundles[i][k + 1]
        /\ \A p \in 1..(Len(Flatten(bundles)) - 1) :
              Flatten(bundles)[p].id < Flatten(bundles)[p + 1].id
    /\ (pc = "done" /\ AllAnswered200
            /\ \A i, j \in 1..Len(text) : text[i] = text[j] => i = j)
        => \A p, q \in 1..Len(res) :
              p < q => \E i, j \in 1..Len(text) :
                          /\ i < j
                          /\ res[p].request_id = MD5(text[i])
                          /\ res[q].request_id = MD5(text[j])

\* C8: once built, data holds in input order the first occurrence of every
\* distinct non-empty text and every record of empty or missing text, and
\* nothing else; no non-empty text is in the bundles to send more than once
C8_Deduplicated ==
    (pc \notin {"start", "status", "resolve", "prepare"} /\ err \notin PreErrors) =>
        /\ \A k \in 1..Len(data) :
              /\ data[k].id \in 1..Len(text)
              /\ data[k].text = text[data[k].id]
        /\ \A k \in 1..(Len(data) - 1) : data[k].id < data[k + 1].id
        /\ \A i \in 1..Len(text) :
              IF text[i] = 0 \/ text[i] = NA
              THEN \E k \in 1..Len(data) : data[k].id = i
              ELSE /\ Cardinality({k \in 1..Len(data) :
                                      data[k].text = text[i]}) = 1
                   /\ \A k \in 1..Len(data) :
                         data[k].text = text[i] => data[k].id <= i
        /\ \A v \in 1..MaxText :
              Cardinality({p \in 1..Len(Flatten(bundles)) :
                              Flatten(bundles)[p].text = v}) <= 1

\* a repeated non-empty text was dropped and a repeated empty or missing
\* text was kept
C8_Witness ==
    /\ pc = "bundle"
    /\ Len(data) < Len(text)
    /\ \E i, j \in 1..Len(text) :
          i < j /\ text[i] = text[j] /\ text[i] > 0
    /\ \E k \in 1..Len(data) : data[k].text = 0 \/ data[k].text = NA

\* C9: with a text over bundle_byte_limit in the input, no bundle is ever
\* sent and the run ends in the oversized-record error
C9_OversizedFailsBeforeSend ==
    HasOversized =>
        /\ \A i \in 1..NBundles : sends[i] = 0
        /\ Terminated => (pc = "error" /\ err = OversizeMsg)

\* the rows that the bundles answered 200 at their first send contribute,
\* bundle after bundle in submission order
RECURSIVE RowsInSubmissionOrder(_)
RowsInSubmissionOrder(i) ==
    IF i > NBundles THEN <<>>
    ELSE (IF got200[i] /\ sends[i] = 1 THEN Results(bundles[i]) ELSE <<>>)
         \o RowsInSubmissionOrder(i + 1)

\* C10: the returned table is the concatenation of the fragments in bundle
\* submission order, whatever the order in which the bundles returned
C10_SubmissionOrder ==
    pc = "done" => res = RowsInSubmissionOrder(1)

\* two bundles of the pool returned against submission order and both
\* contribute rows
C10_Witness ==
    /\ pc = "done"
    /\ cores > 1
    /\ \E a, b \in 1..Len(order) :
          /\ a < b
          /\ order[a] > order[b]
          /\ ~content[order[a]].isNone /\ content[order[a]].rows # <<>>
          /\ ~content[order[b]].isNone /\ content[order[b]].rows # <<>>

NoValidMsg == "no valid texts to process"

\* C11: a POST that times out ends the run only when the bundle that was
\* sent has no retries left in its args dict
C11_TimeoutIsRetried ==
    [][(err' = "Timeout" /\ err # "Timeout") =>
          \A i \in 1..NBundles :
              sends'[i] # sends[i] => retries[MyChunk(i)] = 0]_vars

\* C12: with no input text, request() does not get past the preparation:
\* it is in the no-valid-texts error
C12_EmptyInputFailsEarly ==
    (Len(text) = 0 /\ pc \notin {"start", "status", "resolve", "prepare"}
                   /\ err \notin PreErrors)
        => (pc = "error" /\ err = NoValidMsg)

\* no group of the deduplicated frame is over the byte limit
NoGroupOverLimit ==
    \A g \in 1..Len(GroupBy(data, GroupKeys(Len(text), bundle_size))) :
        GetSizeOfGroup(GroupBy(data, GroupKeys(Len(text), bundle_size))[g])
            <= bundle_byte_limit

\* C13: when no group is over the byte limit, the N records of data are
\* handed to the dispatcher in ceil(N / bundle_size) bundles
C13_BundleCount ==
    (pc = "dispatch" /\ NoGroupOverLimit)
        => NBundles = CeilDiv(Len(data), bundle_size)

\* C20: for a non-empty input the sequence of group keys has one key for
\* every record of the deduplicated frame, so bundling does not raise
C20_GroupKeysFitData ==
    /\ (pc = "bundle" /\ Len(text) >= 1)
          => Len(GroupKeys(Len(text), bundle_size)) = Len(data)
    /\ err # "Grouper and axis must be same length"

\* the bundles whose call of _process has started and has not returned
InProgress == {i \in 1..NBundles : st[i] = "active"}

RECURSIVE ResendsFrom(_, _)
ResendsFrom(ch, i) ==
    IF i > NBundles THEN 0
    ELSE (IF MyChunk(i) = ch THEN depth[i] ELSE 0) + ResendsFrom(ch, i + 1)

LoopsEnded == pc \in {"error", "finalize", "done"}

\* C19: no bundle is sent more than retry_limit + 1 times; the retry counter
\* of every args dict stays in 0..retry_limit and has dropped by exactly one
\* for every resend of a bundle that uses it; and every send-and-retry loop
\* comes to its end
C19_RetryLoopTerminates ==
    /\ [](pc = "dispatch" =>
            /\ \A i \in 1..NBundles :
                  /\ sends[i] <= retry_limit + 1
                  /\ depth[i] <= sends[i]
                  /\ sends[i] <= depth[i] + 1
            /\ \A ch \in 1..Len(retries) :
                  /\ retries[ch] \in 0..retry_limit
                  /\ retry_limit - retries[ch] = ResendsFrom(ch, 1))
    /\ [][pc = "dispatch" /\ pc' = "dispatch" =>
             \A ch \in 1..Len(retries) :
                 retries'[ch] \in {retries[ch], retries[ch] - 1}]_vars
    /\ <>LoopsEnded

C19_Witness ==
    /\ pc = "dispatch"
    /\ retry_limit >= 1
    /\ \E i \in 1..NBundles :
          /\ sends[i] = retry_limit + 1
          /\ st[i] = "returned"
          /\ retries[MyChunk(i)] = 0

\* the preconditions a call can miss
OutputBlocked == output # "None" /\ file = "old" /\ ~overwrite
BadStatus == api_status # 200
MissingColumn ==
    text_form = "frame" /\ (id_column = "notin" \/ text_column = "notin")
BadIds ==
    /\ text_form = "list" \/ id_column = "None"
    /\ ids_len # NoIds
    /\ ids_len # Len(text)

\* C15: a call that misses a precondition never gets to bundling and sends
\* nothing: it ends in the error of the first check it fails. A call whose
\* output file exists without overwrite ends in that error before the status
\* request, and an existing file is replaced only with overwrite
C15_PreconditionsBeforeSend ==
    /\ []((OutputBlocked \/ BadStatus \/ MissingColumn \/ BadIds) =>
            /\ pc \in {"start", "status", "resolve", "error"}
            /\ sends = <<>>
            /\ pc = "error" => err \in PreErrors)
    /\ [](OutputBlocked =>
            /\ pc \in {"start", "error"}
            /\ ~status_called
            /\ file = "old"
            /\ pc = "error" => err = OutputExistsMsg)
    /\ []((BadStatus /\ ~OutputBlocked /\ pc = "error") => err = StatusMsg)
    /\ []((MissingColumn /\ ~BadStatus /\ ~OutputBlocked /\ pc = "error")
            => err \in {IdColumnMsg, TextColumnMsg})
    /\ [][file' # file => (output # "None" /\ (overwrite \/ file = "absent"))]_vars

C15_Witness ==
    /\ pc = "error"
    /\ err = OutputExistsMsg
    /\ BadStatus
    /\ MissingColumn
    /\ ~status_called
    /\ file = "old"
    /\ sends = <<>>

\* column c is the column of framework name: its name is the framework name
\* or goes on with the separator after it
ColumnOf(name, c) ==
    /\ Len(c) >= Len(name)
    /\ SubSeq(c, 1, Len(name)) = name
    /\ Len(c) > Len(name) => c[Len(name) + 1] = "."

\* the columns of the result that the frameworks asked for let through
Survives(c) ==
    \/ c = RequestId
    \/ \E k \in 1..Len(frameworks.names) : ColumnOf(frameworks.names[k], c)

Survivors == SelectSeq(api_columns, Survives)

\* name without what comes before one of its separators
CutAtSeparator(short, name) ==
    \E p \in 1..Len(name) :
        name[p] = "." /\ short = SubSeq(name, p + 1, Len(name))

ColumnSet == {columns[k] : k \in 1..Len(columns)}

\* a table came back from a call that asked for frameworks
Filtered == pc = "done" /\ frameworks.kind # "None"

\* in general: the returned columns are the surviving columns, in their
\* order, each under its name or under its name cut at a separator, and
\* under its name when the caller keeps the prefix
SurvivorsReturned ==
    Filtered =>
        /\ Len(columns) = Len(Survivors)
        /\ \A k \in 1..Len(columns) :
              \/ columns[k] = Survivors[k]
              \/ framework_prefix # "True" /\ CutAtSeparator(columns[k], Survivors[k])

\* framework X asked of the columns request_id, X.a, X.b, Y.c
ExampleX ==
    Filtered /\ frameworks = FrameworkStr(<<"X">>) /\ api_columns = ColumnsA

OneFramework == frameworks.kind \in {"str", "list"} /\ Len(frameworks.names) = 1

\* C17: with one framework asked for, as a string or as a list of one name,
\* request() gets through the selection and returns the surviving columns
\* without the framework prefix when framework_prefix is not given, and
\* under their names when it is True
C17_SingleFrameworkStripsPrefix ==
    OneFramework =>
        /\ err # "TypeError"
        /\ (pc = "done" /\ framework_prefix = "True") => columns = Survivors
        /\ (pc = "done" /\ framework_prefix = "None") =>
              /\ Len(columns) = Len(Survivors)
              /\ \A k \in 1..Len(columns) :
                    IF Survivors[k] \in {RequestId, frameworks.names[1]}
                    THEN columns[k] = Survivors[k]
                    ELSE columns[k] = SubSeq(Survivors[k],
                                             Len(frameworks.names[1]) + 2,
                                             Len(Survivors[k]))

\* a framework asked for that no column of the result belongs to
Unmatched(name) == \A k \in 1..Len(api_columns) : ~ColumnOf(name, api_columns[k])
AsksUnmatched ==
    /\ frameworks.kind # "None"
    /\ \E k \in 1..Len(frameworks.names) : Unmatched(frameworks.names[k])

\* C18 as stated: a call that asks for a framework no column belongs to
\* returns no table
C18_UnknownFrameworkFails == AsksUnmatched => pc # "done"

\* C18 amended: a call that asks for a framework no column belongs to and
\* returns a table returns request_id and the columns of the other
\* frameworks asked for, so request_id alone when no framework asked for has
\* a column
C18_UnknownFrameworkIgnored ==
    (AsksUnmatched /\ pc = "done") =>
        /\ err = ""
        /\ Len(columns) = Len(Survivors)
        /\ columns[1] = RequestId
        /\ (\A k \in 1..Len(frameworks.names) : Unmatched(frameworks.names[k]))
              => columns = <<RequestId>>

C18_Witness ==
    /\ pc = "done"
    /\ frameworks = FrameworkList(<< <<"X">>, <<"Z">> >>)
    /\ framework_prefix = "False"
    /\ api_columns = ColumnsA
    /\ columns = <<RequestId, <<"a">>, <<"b">>>>

====
